---------------------------- MODULE Spec2Model ----------------------------
(***************************************************************************)
(* LegalMind AI: the PDF loader / text normalizer (both PDFService         *)
(* variants), the LLM client (GeminiService) and the React component (App) *)
(* as state machines.                                                      *)
(*                                                                         *)
(* A text is a sequence of characters; a character is a string.  The CJK   *)
(* characters of the source are written with ASCII names (the module's     *)
(* strings are ASCII): Di 第, Tiao 條, Nian 年, Du 度, Zi 字, Hao 號,      *)
(* Ye 頁, Su 訴, JU 。, DOU ，, EXCL ！, QUES ？.  A one-letter string is  *)
(* the ASCII character itself.                                             *)
(***************************************************************************)
EXTENDS Naturals, Sequences, FiniteSets, TLC

VARIABLES
  component,      \* the implementation the current run exercises
  \* ---- PDFService.extractTextFromPDF (one call)
  file,           \* the File argument: [type, size]
  pc,             \* position of the call
  pages,          \* outcome of each page decoded so far (pdf.getPage / getTextContent)
  numPages,       \* pdf.numPages
  fullText,       \* the local fullText
  decoded,        \* file.arrayBuffer() / getDocument was started
  result,         \* what the call returned or threw
  \* ---- one call of analyzeJudgment, generateDocument or testConnection
  apiKey,         \* import.meta.env.VITE_GEMINI_API_KEY is set
  call,           \* the call: its function, its documentType, its position
  requests,       \* the requests sent to the LLM endpoint so far
  response,       \* the HTTP response the call received
  outcome,        \* what the call returned or threw
  \* ---- the App component
  uploadedFile,          \* useState<UploadedFile | null>
  isAnalyzing,           \* useState(false)
  isGenerating,          \* useState(false)
  selectedDocumentType,  \* useState<string>('')
  generatedDocument,     \* useState<string>('')
  alert,                 \* the message of the last alert()
  tasks,                 \* the promises the handlers await
  timers,                \* the setTimeout callbacks not yet run
  started,               \* how many tasks the handlers have started
  lastDraft,             \* history: the draft call that last set generatedDocument
  \* ---- one call of assessTextQuality / extractBasicInfo
  textArg,        \* the text argument
  assessment,     \* what assessTextQuality returned
  info            \* what extractBasicInfo returned

loadVars == <<file, pc, pages, numPages, fullText, decoded, result>>
callVars == <<apiKey, call, requests, response, outcome>>
appVars == <<uploadedFile, isAnalyzing, isGenerating, selectedDocumentType,
             generatedDocument, alert, tasks, timers, started, lastDraft>>
textVars == <<textArg, assessment, info>>
vars == <<component, loadVars, callVars, appVars, textVars>>

----------------------------------------------------------------------------
(* Characters *)

SP == " "
NL == "\n"
JU == "JU"
DOU == "DOU"
EXCL == "EXCL"
QUES == "QUES"
DI == "Di"
TIAO == "Tiao"
NIAN == "Nian"
DU == "Du"
ZI == "Zi"
HAO == "Hao"
YE == "Ye"
SU == "Su"
EQ == "="
PAN == "Pan"
JUE == "Jue"
YUAN1 == "Yuan1"
GAO4 == "Gao4"
BEI == "Bei"
FA == "Fa"
YUAN4 == "Yuan4"
AN == "An"
JIAN == "Jian"
SHI4 == "Shi4"
SHI2 == "Shi2"
LI == "Li"
YOU == "You"
SHANG == "Shang"
TAI == "Tai"
TAI2 == "Tai2"
WAN == "Wan"
BEI3 == "Bei3"
DI4 == "Di4"
FANG == "Fang"
GAO1 == "Gao1"
DENG == "Deng"
ZUI == "Zui"
XING == "Xing"
ZHENG == "Zheng"
ZHI == "Zhi"
HUI == "Hui"
CAI == "Cai"
CHAN == "Chan"
FEN == "Fen"
WANG == "Wang"
XIAO == "Xiao"
MING == "Ming"
LEE == "Lee"
DA == "Da"
HUA == "Hua"
FCOLON == "FullwidthColon"
SEMI == "FullwidthSemicolon"
LQ == "LeftCornerBracket"
RQ == "RightCornerBracket"

\* \s
Space == {SP, NL}
\* \d
Digit == {"0", "1", "2", "3", "4", "5", "6", "7", "8", "9"}
\* \w without the u flag: [A-Za-z0-9_]
Word == Digit \cup {"_"} \cup
  {"a", "b", "c", "d", "e", "f", "g", "h", "i", "j", "k", "l", "m",
   "n", "o", "p", "q", "r", "s", "t", "u", "v", "w", "x", "y", "z"} \cup
  {"A", "B", "C", "D", "E", "F", "G", "H", "I", "J", "K", "L", "M",
   "N", "O", "P", "Q", "R", "S", "T", "U", "V", "W", "X", "Y", "Z"}
\* [。！？]
Terminal == {JU, EXCL, QUES}

----------------------------------------------------------------------------
(* String operations *)

Min(S) == CHOOSE m \in S : \A n \in S : m <= n
Max(S) == CHOOSE m \in S : \A n \in S : m >= n

\* the first index >= i of s whose character is outside class (Len(s)+1 if none):
\* where a greedy class* starting at i stops
Span(s, i, class) ==
  IF i > Len(s) THEN i
  ELSE CHOOSE j \in i..(Len(s) + 1) :
         /\ j = Len(s) + 1 \/ s[j] \notin class
         /\ \A k \in i..(j - 1) : s[k] \in class

\* the last index <= i of s whose character is outside class (0 if none)
SpanBack(s, i, class) ==
  CHOOSE j \in 0..i :
    /\ j = 0 \/ s[j] \notin class
    /\ \A k \in (j + 1)..i : s[k] \in class

At(s, i, c) == i <= Len(s) /\ s[i] = c

Slice(s, from, to) == [k \in 1..(to - from + 1) |-> s[from + k - 1]]

\* String.prototype.trim
Trim(s) ==
  IF Span(s, 1, Space) > Len(s) THEN <<>>
  ELSE Slice(s, Span(s, 1, Space), SpanBack(s, Len(s), Space))

\* String.prototype.includes, for a needle of one character
Includes(s, c) == \E j \in 1..Len(s) : s[j] = c

RECURSIVE Join(_, _)
\* Array.prototype.join
Join(items, sep) ==
  IF Len(items) = 0 THEN <<>>
  ELSE IF Len(items) = 1 THEN items[1]
  ELSE items[1] \o sep \o Join(Tail(items), sep)

RECURSIVE Flatten(_, _, _)
\* parts[lo] \o ... \o parts[hi]
Flatten(parts, lo, hi) ==
  IF lo > hi THEN <<>>
  ELSE IF lo = hi THEN parts[lo]
  ELSE Flatten(parts, lo, (lo + hi) \div 2) \o Flatten(parts, (lo + hi) \div 2 + 1, hi)

RECURSIVE Leftmost(_, _)
\* where a global regular expression matches: ends[j] is the end of the match
\* that starts at j (0 if none starts there); the search goes from left to
\* right and resumes after the end of each match
Leftmost(ends, i) ==
  LET starts == {j \in i..Len(ends) : ends[j] > 0}
  IN IF starts = {} THEN {}
     ELSE {Min(starts)} \cup Leftmost(ends, ends[Min(starts)] + 1)

\* String.prototype.replace(/.../g, ...): ends[i] is the end of the match of
\* the expression at i (0 if it does not match there), reps[i] what replaces it
ReplaceAll(s, ends, reps) ==
  LET starts == Leftmost(ends, 1)
      parts == [i \in 1..Len(s) |->
                  IF i \in starts THEN reps[i]
                  ELSE IF \E j \in starts : j < i /\ i <= ends[j] THEN <<>>
                  ELSE <<s[i]>>]
  IN Flatten(parts, 1, Len(s))

WhitespaceEnd(s, i) == IF s[i] \in Space THEN Span(s, i, Space) - 1 ELSE 0
OneSpace(s, i) == <<SP>>
\* .replace(/\s+/g, ' ')
CollapseWhitespace(s) ==
  ReplaceAll(s, [i \in 1..Len(s) |-> WhitespaceEnd(s, i)],
     [i \in 1..Len(s) |-> IF WhitespaceEnd(s, i) > 0 THEN OneSpace(s, i) ELSE <<>>])

\* a character of marks and the whitespace after it
FollowedEnd(s, i, marks) ==
  IF s[i] \in marks /\ i < Len(s) /\ s[i + 1] \in Space THEN Span(s, i + 1, Space) - 1 ELSE 0
SentenceEnd(s, i) == FollowedEnd(s, i, Terminal)
PeriodEnd(s, i) == FollowedEnd(s, i, {JU})
CommaEnd(s, i) == FollowedEnd(s, i, {DOU})
ThenNewline(s, i) == <<s[i], NL>>
Alone(s, i) == <<s[i]>>
\* .replace(/([。！？])\s+/g, '$1\n')
BreakSentences(s) ==
  ReplaceAll(s, [i \in 1..Len(s) |-> SentenceEnd(s, i)],
     [i \in 1..Len(s) |-> IF SentenceEnd(s, i) > 0 THEN ThenNewline(s, i) ELSE <<>>])
\* .replace(/。\s+/g, '。\n')
BreakPeriods(s) ==
  ReplaceAll(s, [i \in 1..Len(s) |-> PeriodEnd(s, i)],
     [i \in 1..Len(s) |-> IF PeriodEnd(s, i) > 0 THEN ThenNewline(s, i) ELSE <<>>])
\* .replace(/，\s+/g, '，')
FixCommas(s) ==
  ReplaceAll(s, [i \in 1..Len(s) |-> CommaEnd(s, i)],
     [i \in 1..Len(s) |-> IF CommaEnd(s, i) > 0 THEN Alone(s, i) ELSE <<>>])

\* /第\s*(\d+)\s*條/
ArticleEnd(s, i) ==
  LET j == Span(s, i + 1, Space)
      k == Span(s, j, Digit)
      l == Span(s, k, Space)
  IN IF s[i] = DI /\ k > j /\ At(s, l, TIAO) THEN l ELSE 0
ArticleCompact(s, i) ==
  LET j == Span(s, i + 1, Space)
  IN <<DI>> \o Slice(s, j, Span(s, j, Digit) - 1) \o <<TIAO>>
\* .replace(/第\s*(\d+)\s*條/g, '第$1條')
FixArticles(s) ==
  ReplaceAll(s, [i \in 1..Len(s) |-> ArticleEnd(s, i)],
     [i \in 1..Len(s) |-> IF ArticleEnd(s, i) > 0 THEN ArticleCompact(s, i) ELSE <<>>])

\* /=== 第 \d+ 頁 ===/
MarkerEnd(s, i) ==
  LET k == Span(s, i + 6, Digit)
  IN IF /\ At(s, i, EQ) /\ At(s, i + 1, EQ) /\ At(s, i + 2, EQ) /\ At(s, i + 3, SP)
        /\ At(s, i + 4, DI) /\ At(s, i + 5, SP) /\ k > i + 6
        /\ At(s, k, SP) /\ At(s, k + 1, YE) /\ At(s, k + 2, SP)
        /\ At(s, k + 3, EQ) /\ At(s, k + 4, EQ) /\ At(s, k + 5, EQ)
     THEN k + 5 ELSE 0
Nothing(s, i) == <<>>
\* .replace(/=== 第 \d+ 頁 ===/g, '')
RemovePageMarkers(s) ==
  ReplaceAll(s, [i \in 1..Len(s) |-> MarkerEnd(s, i)],
     [i \in 1..Len(s) |-> IF MarkerEnd(s, i) > 0 THEN Nothing(s, i) ELSE <<>>])

\* /(\d+)\s*年度\s*(\w+)\s*字第\s*(\d+)\s*號/
CaseNumberEnd(s, i) ==
  LET a == Span(s, i, Digit)
      b == Span(s, a, Space)
      c == Span(s, b + 2, Space)
      d == Span(s, c, Word)
      e == Span(s, d, Space)
      f == Span(s, e + 2, Space)
      g == Span(s, f, Digit)
      h == Span(s, g, Space)
  IN IF /\ a > i
        /\ At(s, b, NIAN) /\ At(s, b + 1, DU)
        /\ d > c
        /\ At(s, e, ZI) /\ At(s, e + 1, DI)
        /\ g > f
        /\ At(s, h, HAO)
     THEN h ELSE 0
CaseNumberCompacted(s, i) ==
  LET a == Span(s, i, Digit)
      c == Span(s, Span(s, a, Space) + 2, Space)
      d == Span(s, c, Word)
      f == Span(s, Span(s, d, Space) + 2, Space)
  IN Slice(s, i, a - 1) \o <<NIAN, DU>> \o Slice(s, c, d - 1) \o <<ZI, DI>>
       \o Slice(s, f, Span(s, f, Digit) - 1) \o <<HAO>>
\* .replace(/(\d+)\s*年度\s*(\w+)\s*字第\s*(\d+)\s*號/g, '$1年度$2字第$3號')
FixCaseNumbers(s) ==
  ReplaceAll(s, [i \in 1..Len(s) |-> CaseNumberEnd(s, i)],
     [i \in 1..Len(s) |-> IF CaseNumberEnd(s, i) > 0 THEN CaseNumberCompacted(s, i) ELSE <<>>])

\* PDFService.cleanExtractedText, first variant
cleanExtractedText(rawText) ==
  Trim(BreakPeriods(FixCommas(FixCaseNumbers(RemovePageMarkers(
    FixArticles(BreakSentences(CollapseWhitespace(rawText))))))))

\* /\n\s*\n/: a line feed, whitespace, and the last line feed of that whitespace
EmptyLinesEnd(s, i) ==
  LET nls == {k \in (i + 1)..(Span(s, i + 1, Space) - 1) : s[k] = NL}
  IN IF s[i] = NL /\ nls /= {} THEN Max(nls) ELSE 0
\* .replace(/\n\s*\n/g, '\n')
RemoveEmptyLines(s) ==
  ReplaceAll(s, [i \in 1..Len(s) |-> EmptyLinesEnd(s, i)],
     [i \in 1..Len(s) |-> IF EmptyLinesEnd(s, i) > 0 THEN Alone(s, i) ELSE <<>>])

\* PDFService.cleanExtractedText, second variant
cleanExtractedText2(text) == Trim(RemoveEmptyLines(CollapseWhitespace(text)))

----------------------------------------------------------------------------
(* Inputs of the loader *)

\* bounds of the model
MaxPages == 2
MaxItems == 2
MaxItemLen == 1

\* PDFService.MAX_FILE_SIZE
MAX_FILE_SIZE == 10 * 1024 * 1024
\* PDFService.SUPPORTED_TYPES
SUPPORTED_TYPES == {"application/pdf"}
\* the least length the second variant accepts (cleanText.trim().length < 50)
MIN_TEXT_LENGTH == 50

MediaTypes == {"application/pdf", "image/png", ""}
FileSizes == {0, 1, MAX_FILE_SIZE, MAX_FILE_SIZE + 1}
Files == [type : MediaTypes, size : FileSizes]

ItemChars == {SP, "a", JU}
RECURSIVE SeqsUpTo(_, _)
\* the sequences over S of length at most n
SeqsUpTo(S, n) ==
  IF n = 0 THEN {<<>>}
  ELSE LET shorter == SeqsUpTo(S, n - 1)
       IN shorter \cup {Append(q, c) : q \in shorter, c \in S}

\* "112  年度  訴  字第  456  號"
CaseNumberSample ==
  <<"1", "1", "2", SP, SP, NIAN, DU, SP, SP, SU, SP, SP, ZI, DI, SP, SP,
    "4", "5", "6", SP, SP, HAO>>
\* "112年度訴字第456號"
CaseNumberCompact == <<"1", "1", "2", NIAN, DU, SU, ZI, DI, "4", "5", "6", HAO>>
\* a run of text long enough for the second variant
LongSample == [k \in 1..MIN_TEXT_LENGTH |-> "a"]

\* "112年度訴字第789號"
CaseNumber789 == <<"1", "1", "2", NIAN, DU, SU, ZI, DI, "7", "8", "9", HAO>>
\* "原告：王小明 被告：李大華"
Parties == <<YUAN1, GAO4, FCOLON, WANG, XIAO, MING, SP, BEI, GAO4, FCOLON, LEE, DA, HUA>>
\* the text of a page of a judgment:
\* "判決\n原告：王小明 被告：李大華\n112年度訴字第789號"
JudgmentPage == <<PAN, JUE, NL>> \o Parties \o <<NL>> \o CaseNumber789

\* the str of a text item of a page
ItemStrs ==
  SeqsUpTo(ItemChars, MaxItemLen) \cup {CaseNumberSample, LongSample, JudgmentPage}
\* what decoding a page gives: it throws, or it yields text items
PageOutcomes ==
  [throws : {TRUE}, items : {<<>>}] \cup
  [throws : {FALSE}, items : SeqsUpTo(ItemStrs, MaxItems)]

DigitOf(n) == <<"0", "1", "2", "3", "4", "5", "6", "7", "8", "9">>[n + 1]
RECURSIVE NumStr(_)
\* `${i}`
NumStr(n) == IF n < 10 THEN <<DigitOf(n)>> ELSE NumStr(n \div 10) \o <<DigitOf(n % 10)>>

\* `\n=== 第 ${i} 頁 ===\n`
PageMarker(i) ==
  <<NL, EQ, EQ, EQ, SP, DI, SP>> \o NumStr(i) \o <<SP, YE, SP, EQ, EQ, EQ, NL>>

SelectSeq1(items) == SelectSeq(items, LAMBDA it : Trim(it) /= <<>>)
\* textContent.items.filter(str && str.trim()).map(str.trim()).join(' ')
PageText(items) ==
  LET kept == SelectSeq1(items)
  IN Join([k \in 1..Len(kept) |-> Trim(kept[k])], <<SP>>)
\* textContent.items.map(item.str || '').join(' ')
PageText2(items) == Join(items, <<SP>>)

NoResult == [status |-> "none", text |-> <<>>, error |-> ""]
Returned(text) == [status |-> "ok", text |-> text, error |-> ""]
Threw(error) == [status |-> "error", text |-> <<>>, error |-> error]

\* the messages of validateFile
InvalidInput == {"invalidType", "tooLarge", "emptyFile"}

\* PDFService.validateFile, first variant: "" when the file is valid
validateFile(f) ==
  IF f.type \notin SUPPORTED_TYPES THEN "invalidType"
  ELSE IF f.size > MAX_FILE_SIZE THEN "tooLarge"
  ELSE IF f.size = 0 THEN "emptyFile"
  ELSE ""

\* PDFService.validateFile, second variant
validateFile2(f) ==
  IF f.type /= "application/pdf" THEN "invalidType"
  ELSE IF f.size > MAX_FILE_SIZE THEN "tooLarge"
  ELSE ""

\* App.handleFileUpload up to extractTextFromPdf: the message of the alert, ""
\* when the file goes on to be decoded
checkUpload(f) ==
  IF f.type /= "application/pdf" THEN "invalidType"
  ELSE IF f.size > 10 * 1024 * 1024 THEN "tooLarge"
  ELSE ""

\* App.extractTextFromPdf: textContent.items.map(item.str).join(' ')
PageTextApp(items) == Join(items, <<SP>>)

\* the loaders: the two variants of PDFService.extractTextFromPDF, and
\* App.handleFileUpload with App.extractTextFromPdf
Loaders == {"PDFService", "PDFService2", "App"}

\* no call of extractTextFromPDF is made
NoLoad ==
  /\ file = [type |-> "", size |-> 0]
  /\ pc = "none"
  /\ pages = <<>>
  /\ numPages = 0
  /\ fullText = <<>>
  /\ decoded = FALSE
  /\ result = NoResult

InitLoad ==
  /\ file \in Files
  /\ pc = "start"
  /\ pages = <<>>
  /\ numPages = 0
  /\ fullText = <<>>
  /\ decoded = FALSE
  /\ result = NoResult

\* extractTextFromPDF up to file.arrayBuffer()
Validate ==
  /\ component \in Loaders
  /\ pc = "start"
  /\ LET error == IF component = "PDFService" THEN validateFile(file)
                  ELSE IF component = "PDFService2" THEN validateFile2(file)
                  ELSE checkUpload(file)
     IN IF error /= ""
        THEN /\ pc' = "done"
             /\ result' = Threw(error)
             /\ UNCHANGED decoded
        ELSE /\ pc' = "open"
             /\ decoded' = TRUE
             /\ UNCHANGED result
  /\ UNCHANGED <<component, textVars, appVars, file, pages, numPages, fullText, callVars>>

\* pdfjsLib.getDocument(...).promise: the document opens with its pages, or is rejected
Open ==
  /\ component \in Loaders
  /\ pc = "open"
  /\ \/ \E n \in 0..MaxPages :
          /\ numPages' = n
          /\ pc' = "page"
          /\ UNCHANGED result
     \/ /\ pc' = "done"
        /\ result' = Threw("loadFailed")
        /\ UNCHANGED numPages
  /\ UNCHANGED <<component, textVars, appVars, file, pages, fullText, decoded, callVars>>

\* one turn of the page loop
DecodePage ==
  /\ component \in Loaders
  /\ pc = "page"
  /\ Len(pages) < numPages
  /\ \E page \in PageOutcomes :
       /\ pages' = Append(pages, page)
       /\ IF component = "PDFService"
          THEN \* try { ... } catch (pageError) { continue }
               /\ fullText' =
                    IF ~page.throws /\ Trim(PageText(page.items)) /= <<>>
                    THEN fullText \o PageMarker(Len(pages) + 1)
                           \o PageText(page.items) \o <<NL>>
                    ELSE fullText
               /\ UNCHANGED <<pc, result>>
          ELSE \* no try around the page: the outer catch ends the call
               IF page.throws
               THEN /\ pc' = "done"
                    /\ result' = Threw("pageFailed")
                    /\ UNCHANGED fullText
               ELSE /\ fullText' = IF component = "PDFService2"
                                    THEN fullText \o PageText2(page.items) \o <<NL, NL>>
                                    ELSE fullText \o PageTextApp(page.items) \o <<NL>>
                    /\ UNCHANGED <<pc, result>>
  /\ UNCHANGED <<component, textVars, appVars, file, numPages, decoded, callVars>>

\* after the loop: clean the text, refuse an empty one, return
Finish ==
  /\ component \in Loaders
  /\ pc = "page"
  /\ Len(pages) = numPages
  /\ pc' = "done"
  /\ result' =
       IF component = "PDFService"
       THEN IF Trim(cleanExtractedText(fullText)) = <<>>
            THEN Threw("noExtractableText")
            ELSE Returned(cleanExtractedText(fullText))
       ELSE IF component = "PDFService2"
       THEN IF Len(Trim(cleanExtractedText2(fullText))) < MIN_TEXT_LENGTH
            THEN Threw("noExtractableText")
            ELSE Returned(cleanExtractedText2(fullText))
       ELSE IF Trim(fullText) = <<>>
            THEN Threw("noExtractableText")
            ELSE Returned(fullText)
  /\ UNCHANGED <<component, textVars, appVars, file, pages, numPages, fullText, decoded, callVars>>

NextLoad == Validate \/ Open \/ DecodePage \/ Finish


----------------------------------------------------------------------------
(* JSON: the text of an LLM reply and JSON.parse                           *)
(*                                                                         *)
(* A reply to an analysis request is a sequence of tokens: an opening      *)
(* brace, a closing brace, a run of text that is no JSON, a member         *)
(* "key": value whose value is no object, or a key "key": that an object   *)
(* follows.  Commas and the text of strings are left out.                  *)

LB == [t |-> "{", key |-> "", val |-> ""]
RB == [t |-> "}", key |-> "", val |-> ""]
XT == [t |-> "text", key |-> "", val |-> ""]
Member(key, val) == [t |-> "member", key |-> key, val |-> val]
Key(key) == [t |-> "key", key |-> key, val |-> ""]

\* a JavaScript value: its kind and, for an object, its members
Value(kind) == [k |-> kind, m |-> <<>>]
Object(members) == [k |-> "object", m |-> members]
Undefined == Value("undefined")

\* typeof v === 'string'
IsString(v) == v.k \in {"string", "emptystring"}
\* Array.isArray(v)
IsArray(v) == v.k \in {"array", "emptyarray"}
\* typeof v === 'object'
IsObjectType(v) == v.k \in {"object", "array", "emptyarray", "null"}
\* !!v
Truthy(v) == v.k \notin {"undefined", "null", "emptystring"}
\* v[key], for v neither null nor undefined
Prop(v, key) == IF v.k = "object" /\ key \in DOMAIN v.m THEN v.m[key] ELSE Undefined

\* String.prototype.match(/\{[\s\S]*\}/): the span from the first opening brace
\* to the last closing brace after it; <<>> when there is none
Opens(text) == {j \in 1..Len(text) : text[j] = LB}
Closes(text) == {j \in 1..Len(text) : text[j] = RB}
\* a match that asks for both braces but not for their order
HasAnyBraces(text) == Opens(text) /= {} /\ Closes(text) /= {}
HasJsonMatch(text) == Opens(text) /= {} /\ Max(Closes(text) \cup {0}) > Min(Opens(text))
\* a span that ends at the brace closing the first opening one, when there is one
JsonBalancedMatch(text) ==
  IF ~HasJsonMatch(text) THEN <<>>
  ELSE LET first == Min(Opens(text))
           depth(j) == Cardinality({k \in Opens(text) : k >= first /\ k <= j})
                       - Cardinality({k \in Closes(text) : k >= first /\ k <= j})
           closing == {j \in Closes(text) : j > first /\ depth(j) = 0}
       IN Slice(text, first, IF closing = {} THEN Max(Closes(text)) ELSE Min(closing))
\* responseText.match(/\{[\s\S]*\}/)[0]: the star is greedy, so the span runs
\* from the first opening brace to the last closing one
JsonMatch(text) ==
  IF HasJsonMatch(text) THEN Slice(text, Min(Opens(text)), Max(Closes(text))) ELSE <<>>

RECURSIVE ParseMembers(_, _, _)
\* the members of an object from token i on, up to its closing brace
ParseMembers(toks, i, acc) ==
  IF i > Len(toks) THEN [ok |-> FALSE, val |-> <<>>, next |-> i]
  ELSE IF toks[i] = RB THEN [ok |-> TRUE, val |-> acc, next |-> i + 1]
  ELSE IF toks[i].t = "member"
       THEN ParseMembers(toks, i + 1, (toks[i].key :> Value(toks[i].val)) @@ acc)
  ELSE IF toks[i].t = "key" /\ i < Len(toks) /\ toks[i + 1] = LB
       THEN LET inner == ParseMembers(toks, i + 2, <<>>)
            IN IF inner.ok
               THEN ParseMembers(toks, inner.next, (toks[i].key :> Object(inner.val)) @@ acc)
               ELSE [ok |-> FALSE, val |-> <<>>, next |-> i]
  ELSE [ok |-> FALSE, val |-> <<>>, next |-> i]

\* JSON.parse of a span that starts with an opening brace: the object, or a
\* SyntaxError (ok = FALSE) when the span is not one whole object
JSONparse(span) ==
  LET r == ParseMembers(span, 2, <<>>)
  IN IF Len(span) >= 2 /\ span[1] = LB /\ r.ok /\ r.next = Len(span) + 1
     THEN [ok |-> TRUE, val |-> Object(r.val)]
     ELSE [ok |-> FALSE, val |-> Undefined]

----------------------------------------------------------------------------
(* Validation of an analysis *)

NoError == [kind |-> "", field |-> ""]
Error(kind, field) == [kind |-> kind, field |-> field]

\* requiredFields of validateAnalysisResult, in the order Object.entries gives them
requiredFields ==
  << [field |-> "summary", type |-> "string"],
     [field |-> "caseInfo", type |-> "object"],
     [field |-> "favorablePoints", type |-> "array"],
     [field |-> "unfavorablePoints", type |-> "array"],
     [field |-> "legalGrounds", type |-> "array"],
     [field |-> "appealableIssues", type |-> "array"],
     [field |-> "recommendedStrategy", type |-> "string"] >>

\* one turn of the loop of validateAnalysisResult
FieldError(res, rf) ==
  IF rf.field \notin DOMAIN res.m THEN Error("missingField", rf.field)
  ELSE IF rf.type = "array" /\ (~IsArray(res.m[rf.field]) \/ res.m[rf.field].k = "emptyarray")
       THEN Error("notNonEmptyArray", rf.field)
  ELSE IF rf.type = "string" /\ ~IsString(res.m[rf.field])
       THEN Error("notString", rf.field)
  ELSE IF rf.type = "object" /\ ~IsObjectType(res.m[rf.field])
       THEN Error("notObject", rf.field)
  ELSE NoError

\* the checks of caseInfo that follow the loop
CaseInfoError(caseInfo) ==
  IF caseInfo.k = "null" THEN Error("TypeError", "")
  ELSE IF \/ ~Truthy(Prop(caseInfo, "caseNumber"))
          \/ ~Truthy(Prop(caseInfo, "court"))
          \/ ~Truthy(Prop(caseInfo, "parties"))
       THEN Error("caseInfoIncomplete", "")
  ELSE IF \/ ~Truthy(Prop(Prop(caseInfo, "parties"), "plaintiff"))
          \/ ~Truthy(Prop(Prop(caseInfo, "parties"), "defendant"))
       THEN Error("partiesIncomplete", "")
  ELSE NoError

\* GeminiService.validateAnalysisResult: the error it throws, NoError if none
validateAnalysisResult(res) ==
  LET bad == {n \in 1..Len(requiredFields) : FieldError(res, requiredFields[n]) /= NoError}
  IN IF bad /= {} THEN FieldError(res, requiredFields[Min(bad)])
     ELSE CaseInfoError(res.m["caseInfo"])

NoOutcome == [status |-> "none", value |-> Undefined, error |-> NoError]
Success(value) == [status |-> "ok", value |-> value, error |-> NoError]
Failure(error) == [status |-> "error", value |-> Undefined, error |-> error]

\* GeminiService.parseJudgmentAnalysis
parseJudgmentAnalysis(responseText) ==
  IF ~HasJsonMatch(responseText) THEN Failure(Error("noJsonFound", ""))
  ELSE LET parsed == JSONparse(JsonMatch(responseText))
       IN IF ~parsed.ok THEN Failure(Error("malformedJson", ""))
          ELSE IF validateAnalysisResult(parsed.val) /= NoError
               THEN Failure(validateAnalysisResult(parsed.val))
          ELSE Success(parsed.val)

\* App.analyzeJudgment from the reply text on (lines 132-145)
AppParseAnalysis(analysisText) ==
  IF ~HasJsonMatch(analysisText) THEN Failure(Error("noJsonFound", ""))
  ELSE LET parsedResult == JSONparse(JsonMatch(analysisText))
       IN IF ~parsedResult.ok THEN Failure(Error("SyntaxError", ""))
          ELSE IF \/ ~Truthy(Prop(parsedResult.val, "summary"))
                  \/ ~Truthy(Prop(parsedResult.val, "caseInfo"))
               THEN Failure(Error("incomplete", ""))
          ELSE Success(parsedResult.val)

----------------------------------------------------------------------------
(* Replies to an analysis request *)

\* bound of the model: how many edits (a field changed or left out, a token of
\* text or a brace before or after the object) a reply is away from a valid one
MaxEdits == 2

Slots ==
  {"summary", "caseInfo", "caseNumber", "court", "parties", "plaintiff", "defendant",
   "favorablePoints", "unfavorablePoints", "legalGrounds", "appealableIssues",
   "recommendedStrategy"}
ListSlots == {"favorablePoints", "unfavorablePoints", "legalGrounds", "appealableIssues"}
ObjectSlots == {"caseInfo", "parties"}

\* what the prompt asks for
Asked(slot) ==
  IF slot \in ListSlots THEN "array"
  ELSE IF slot \in ObjectSlots THEN "object"
  ELSE "string"

\* what a reply may hold instead
Kinds == {"string", "emptystring", "number", "null", "array", "emptyarray", "object", "absent"}
Instead(slot) ==
  IF slot \in ListSlots THEN {"emptyarray", "string", "absent"}
  ELSE IF slot = "caseInfo" THEN {"null", "array", "string", "absent"}
  ELSE IF slot = "parties" THEN {"string", "absent"}
  ELSE IF slot = "summary" THEN {"emptystring", "number", "absent"}
  ELSE IF slot = "recommendedStrategy" THEN {"number", "absent"}
  ELSE {"emptystring", "absent"}

\* the shapes of a reply's object with at most n slots not as asked
Shapes(n) ==
  {[slot \in Slots |-> IF slot \in DOMAIN alt THEN alt[slot] ELSE Asked(slot)] :
     alt \in UNION {{a \in [S -> Kinds] : \A slot \in S : a[slot] \in Instead(slot)} :
                      S \in {T \in SUBSET Slots : Cardinality(T) <= n}}}

\* the tokens of a member
Field(shape, slot, inner) ==
  IF shape[slot] = "absent" THEN <<>>
  ELSE IF shape[slot] = "object" THEN <<Key(slot), LB>> \o inner \o <<RB>>
  ELSE <<Member(slot, shape[slot])>>

Plain(shape, slot) == Field(shape, slot, <<>>)

\* the object of the given shape, as the model writes it
Serialize(shape) ==
  <<LB>>
  \o Plain(shape, "summary")
  \o Field(shape, "caseInfo",
           Plain(shape, "caseNumber") \o Plain(shape, "court")
           \o Field(shape, "parties", Plain(shape, "plaintiff") \o Plain(shape, "defendant")))
  \o Plain(shape, "favorablePoints")
  \o Plain(shape, "unfavorablePoints")
  \o Plain(shape, "legalGrounds")
  \o Plain(shape, "appealableIssues")
  \o Plain(shape, "recommendedStrategy")
  \o <<RB>>

\* the reply is cut before its last token (the output-token limit was reached)
Cut(toks) == SubSeq(toks, 1, Len(toks) - 1)

Around == {LB, RB, XT}
\* the bodies of a reply within n edits: an object, an object cut short, nothing
Bodies(n) ==
  {Serialize(shape) : shape \in Shapes(n)}
  \cup (IF n >= 1 THEN {Cut(Serialize(shape)) : shape \in Shapes(n - 1)} ELSE {})
  \cup {<<>>}

\* the replies with the given tokens before and after the body
RepliesAround(pre, post) ==
  {pre \o body \o post : body \in Bodies(MaxEdits - Len(pre) - Len(post))}

AnalysisReplies ==
  UNION {RepliesAround(e[1], e[2]) :
           e \in {x \in SeqsUpTo(Around, MaxEdits) \X SeqsUpTo(Around, MaxEdits) :
                    Len(x[1]) + Len(x[2]) <= MaxEdits}}

----------------------------------------------------------------------------
(* Drafting *)

\* bound of the model: the length of a reply to a draft request
MaxDraftLen == 2

\* DocumentGenerationRequest.documentType; the buttons of the selector:
\* 民事上訴狀, 刑事上訴狀, 答辯狀, 起訴狀.  In a text, the name of a document type
\* is one character.
DocumentTypes == {"CivilAppeal", "CriminalAppeal", "Defense", "Complaint"}

DraftChars == {SP, NL, "a", "CivilAppeal"}
DraftReplies == SeqsUpTo(DraftChars, MaxDraftLen)

\* /\n{3,}/
BlankLinesEnd(s, i) ==
  IF s[i] = NL /\ Span(s, i, {NL}) >= i + 3 THEN Span(s, i, {NL}) - 1 ELSE 0
TwoNewlines(s, i) == <<NL, NL>>
\* .replace(/\n{3,}/g, '\n\n')
CollapseBlankLines(s) ==
  ReplaceAll(s, [i \in 1..Len(s) |-> BlankLinesEnd(s, i)],
     [i \in 1..Len(s) |-> IF BlankLinesEnd(s, i) > 0 THEN TwoNewlines(s, i) ELSE <<>>])

\* GeminiService.formatLegalDocument
formatLegalDocument(content, documentType) ==
  LET formatted == IF Includes(Trim(content), documentType) THEN Trim(content)
                   ELSE <<documentType, NL, NL>> \o Trim(content)
  IN Trim(FixArticles(CollapseBlankLines(BreakPeriods(FixCommas(formatted)))))

\* "文件生成失敗，請稍後再試。"
GenerationFailedText == <<"GenerationFailed">>

----------------------------------------------------------------------------
(* The LLM endpoint and the calls *)

\* an HTTP exchange: fetch rejects, or a response arrives, 2xx or not; the body
\* of a 2xx response has no content, an empty content list, a first block that
\* has no text, or a first block with text
Response(net, content, text) == [net |-> net, content |-> content, text |-> text]
Responses(texts) ==
  {Response("rejected", "missing", <<>>), Response("notOk", "missing", <<>>),
   Response("ok", "missing", <<>>), Response("ok", "empty", <<>>),
   Response("ok", "noText", <<>>)}
  \cup {Response("ok", "text", text) : text \in texts}
NoResponse == Response("none", "missing", <<>>)

\* data.content[0].text || ''
ReplyText(resp) == IF resp.content = "text" THEN resp.text ELSE <<>>

Request(fn, authorization, documentType) ==
  [fn |-> fn, authorization |-> authorization, documentType |-> documentType]

Call(fn, documentType, state) == [fn |-> fn, documentType |-> documentType, state |-> state]

\* GeminiService.callAPI from the response on: the text it returns or the error
callAPI(resp) ==
  IF resp.net = "rejected" THEN Failure(Error("network", ""))
  ELSE IF resp.net = "notOk" THEN Failure(Error("http", ""))
  ELSE IF resp.content \in {"missing", "empty"} THEN Failure(Error("badResponse", ""))
  ELSE Success(ReplyText(resp))

\* GeminiService.analyzeJudgment from the response on
analyzeJudgment(resp) ==
  IF callAPI(resp).status = "error" THEN callAPI(resp)
  ELSE parseJudgmentAnalysis(callAPI(resp).value)

\* GeminiService.generateDocument from the response on
generateDocument(resp, documentType) ==
  IF callAPI(resp).status = "error" THEN callAPI(resp)
  ELSE Success(formatLegalDocument(callAPI(resp).value, documentType))

\* GeminiService.testConnection from the response on
testConnection(resp) == Success(callAPI(resp).status = "ok")

\* App.analyzeJudgment from the response on
AppAnalyzeJudgment(resp) ==
  IF resp.net = "rejected" THEN Failure(Error("network", ""))
  ELSE IF resp.net = "notOk" THEN Failure(Error("http", ""))
  ELSE AppParseAnalysis(ReplyText(resp))

\* App.generateDocument from the response on: response.ok is not looked at, and
\* every error becomes the text the catch returns.  A first block without text
\* gives undefined, which the component shows like the empty string.
AppGenerateDocument(resp) ==
  IF resp.net = "rejected" \/ resp.content \in {"missing", "empty"}
  THEN Success(GenerationFailedText)
  ELSE Success(ReplyText(resp))

Functions == {"GeminiService", "App"}

\* no call of the LLM functions is made
NoCall ==
  /\ apiKey = FALSE
  /\ call = Call("none", "", "none")
  /\ requests = <<>>
  /\ response = NoResponse
  /\ outcome = NoOutcome

InitCall ==
  /\ apiKey \in BOOLEAN
  /\ call = Call("none", "", "idle")
  /\ requests = <<>>
  /\ response = NoResponse
  /\ outcome = NoOutcome

\* callAPI up to fetch: without a key it throws, with one it sends the request
SendWithKey(fn, documentType) ==
  /\ component = "GeminiService"
  /\ call.state = "idle"
  /\ IF ~apiKey
     THEN /\ call' = Call(fn, documentType, "done")
          /\ outcome' = IF fn = "testConnection" THEN Success(FALSE)
                        ELSE Failure(Error("noApiKey", ""))
          /\ UNCHANGED requests
     ELSE /\ call' = Call(fn, documentType, "fetching")
          /\ requests' = Append(requests, Request(fn, TRUE, documentType))
          /\ UNCHANGED outcome
  /\ UNCHANGED <<component, textVars, appVars, loadVars, apiKey, response>>

GeminiAnalyzeJudgment == SendWithKey("analyzeJudgment", "")
GeminiGenerateDocument == \E documentType \in DocumentTypes :
                            SendWithKey("generateDocument", documentType)
GeminiTestConnection == SendWithKey("testConnection", "")

\* the fetch of a GeminiService call settles
GeminiReturn ==
  /\ component = "GeminiService"
  /\ call.state = "fetching"
  /\ \E resp \in IF call.fn = "analyzeJudgment" THEN Responses(AnalysisReplies)
                 ELSE Responses(DraftReplies) :
       /\ response' = resp
       /\ outcome' = IF call.fn = "analyzeJudgment" THEN analyzeJudgment(resp)
                     ELSE IF call.fn = "generateDocument"
                          THEN generateDocument(resp, call.documentType)
                     ELSE testConnection(resp)
  /\ call' = [call EXCEPT !.state = "done"]
  /\ UNCHANGED <<component, textVars, appVars, loadVars, apiKey, requests>>

\* App.analyzeJudgment / App.generateDocument up to fetch: the request carries
\* no Authorization header and no key is read
SendWithoutKey(fn, documentType) ==
  /\ component = "App"
  /\ call.state = "idle"
  /\ call' = Call(fn, documentType, "fetching")
  /\ requests' = Append(requests, Request(fn, FALSE, documentType))
  /\ UNCHANGED <<component, textVars, appVars, loadVars, apiKey, response, outcome>>

AppCallAnalyzeJudgment == SendWithoutKey("analyzeJudgment", "")
AppCallGenerateDocument == \E documentType \in DocumentTypes :
                             SendWithoutKey("generateDocument", documentType)

\* the fetch of an App call settles
AppReturn ==
  /\ component = "App"
  /\ call.state = "fetching"
  /\ \E resp \in IF call.fn = "analyzeJudgment" THEN Responses(AnalysisReplies)
                 ELSE Responses(DraftReplies) :
       /\ response' = resp
       /\ outcome' = IF call.fn = "analyzeJudgment" THEN AppAnalyzeJudgment(resp)
                     ELSE AppGenerateDocument(resp)
  /\ call' = [call EXCEPT !.state = "done"]
  /\ UNCHANGED <<component, textVars, appVars, loadVars, apiKey, requests>>

NextCall ==
  \/ GeminiAnalyzeJudgment \/ GeminiGenerateDocument \/ GeminiTestConnection
  \/ GeminiReturn
  \/ AppCallAnalyzeJudgment \/ AppCallGenerateDocument
  \/ AppReturn


----------------------------------------------------------------------------
(* The App component *)

\* bound of the model: how many uploads, analyses and drafts a run starts
MaxTasks == 4

\* the judgments the user has at hand; a judgment stands for its text
Judgments == {"J1", "J2"}

\* uploadedFile: null, or the text of a judgment and, once an analysis is
\* attached, the judgment that analysis was made of ("" when there is none)
NoFile == [present |-> FALSE, text |-> "", analysis |-> ""]
Uploaded(text, analysis) == [present |-> TRUE, text |-> text, analysis |-> analysis]

\* a selector with a button more
SelectorTypesAndOther == {"CivilAppeal", "CriminalAppeal", "Defense", "Complaint", "Other"}
\* the buttons of the document type selector
SelectorTypes == {"CivilAppeal", "CriminalAppeal", "Defense", "Complaint"}

\* the reply that is as the prompt asks
Complete == Serialize([slot \in Slots |-> Asked(slot)])
\* the replies the component is run against
AppAnalysisReplies == {Complete, <<XT>>}
AppDraftReplies == {<<>>, <<"a">>}

Task(id, kind, text, documentType) ==
  [id |-> id, kind |-> kind, text |-> text, documentType |-> documentType]

\* no draft call has set generatedDocument
NoDraft == [documentType |-> "", analysis |-> "", response |-> NoResponse]

\* the component is not mounted
NoApp ==
  /\ uploadedFile = NoFile
  /\ isAnalyzing = FALSE
  /\ isGenerating = FALSE
  /\ selectedDocumentType = ""
  /\ generatedDocument = <<>>
  /\ alert = ""
  /\ tasks = {}
  /\ timers = 0
  /\ started = MaxTasks
  /\ lastDraft = NoDraft

\* the component after its first render
InitApp ==
  /\ uploadedFile = NoFile
  /\ isAnalyzing = FALSE
  /\ isGenerating = FALSE
  /\ selectedDocumentType = ""
  /\ generatedDocument = <<>>
  /\ alert = ""
  /\ tasks = {}
  /\ timers = 0
  /\ started = 0
  /\ lastDraft = NoDraft

\* handleFileUpload up to the await: the upload section is rendered while
\* uploadedFile is null
HandleFileUpload ==
  /\ component = "App"
  /\ ~uploadedFile.present
  /\ started < MaxTasks
  /\ \E f \in Files, judgment \in Judgments :
       IF checkUpload(f) /= ""
       THEN /\ alert' = checkUpload(f)
            /\ UNCHANGED <<isAnalyzing, tasks, started>>
       ELSE /\ isAnalyzing' = TRUE
            /\ tasks' = tasks \cup {Task(started + 1, "upload", judgment, "")}
            /\ started' = started + 1
            /\ UNCHANGED alert
  /\ UNCHANGED <<component, textVars, loadVars, lastDraft, callVars, uploadedFile, isGenerating,
                 selectedDocumentType, generatedDocument, timers>>

\* handleFileUpload after the await: extractTextFromPdf returned the text, or threw
UploadSettles ==
  /\ component = "App"
  /\ \E t \in tasks :
       /\ t.kind = "upload"
       /\ tasks' = tasks \ {t}
       /\ \/ /\ uploadedFile' = Uploaded(t.text, "")
             /\ timers' = timers + 1
             /\ UNCHANGED <<isAnalyzing, alert>>
          \/ /\ alert' = "uploadFailed"
             /\ isAnalyzing' = FALSE
             /\ UNCHANGED <<uploadedFile, timers>>
  /\ UNCHANGED <<component, textVars, loadVars, lastDraft, callVars, isGenerating, selectedDocumentType,
                 generatedDocument, started>>

\* a timer whose callback leaves isAnalyzing as it is
TimerFiresWithoutReset ==
  /\ component = "App"
  /\ timers > 0
  /\ timers' = timers - 1
  /\ UNCHANGED <<component, textVars, loadVars, lastDraft, callVars, uploadedFile, isAnalyzing,
                 isGenerating, selectedDocumentType, generatedDocument, alert, tasks, started>>

\* setTimeout(() => setIsAnalyzing(false), 500)
TimerFires ==
  /\ component = "App"
  /\ timers > 0
  /\ timers' = timers - 1
  /\ isAnalyzing' = FALSE
  /\ UNCHANGED <<component, textVars, loadVars, lastDraft, callVars, uploadedFile, isGenerating,
                 selectedDocumentType, generatedDocument, alert, tasks, started>>

\* startAnalysis up to the await, with analyzeJudgment up to fetch: the button is
\* rendered while uploadedFile is set and has no analysis, and disabled while
\* isAnalyzing
StartAnalysis ==
  /\ component = "App"
  /\ uploadedFile.present /\ uploadedFile.analysis = ""
  /\ ~isAnalyzing
  /\ started < MaxTasks
  /\ isAnalyzing' = TRUE
  /\ requests' = Append(requests, Request("analyzeJudgment", FALSE, ""))
  /\ tasks' = tasks \cup {Task(started + 1, "analyze", uploadedFile.text, "")}
  /\ started' = started + 1
  /\ UNCHANGED <<component, textVars, loadVars, lastDraft, apiKey, call, response, outcome, uploadedFile,
                 isGenerating, selectedDocumentType, generatedDocument, alert, timers>>

\* startAnalysis after the await
AnalysisSettles ==
  /\ component = "App"
  /\ \E t \in tasks, resp \in Responses(AppAnalysisReplies) :
       /\ t.kind = "analyze"
       /\ tasks' = tasks \ {t}
       /\ uploadedFile' =
            IF AppAnalyzeJudgment(resp).status = "ok" /\ uploadedFile.present
            THEN [uploadedFile EXCEPT !.analysis = t.text]
            ELSE uploadedFile
  /\ isAnalyzing' = FALSE
  /\ UNCHANGED <<component, textVars, loadVars, lastDraft, callVars, isGenerating, selectedDocumentType,
                 generatedDocument, alert, timers, started>>

\* a button of the selector, rendered once an analysis is attached
SelectDocumentType ==
  /\ component = "App"
  /\ uploadedFile.analysis /= ""
  /\ \E type \in SelectorTypes : selectedDocumentType' = type
  /\ UNCHANGED <<component, textVars, loadVars, lastDraft, callVars, uploadedFile, isAnalyzing, isGenerating,
                 generatedDocument, alert, tasks, timers, started>>

\* a handler that starts a draft with whatever the component holds: no results
\* section to render the button in, no early return
GenerateWithoutGuard ==
  /\ component = "App"
  /\ ~isGenerating
  /\ started < MaxTasks
  /\ isGenerating' = TRUE
  /\ requests' = Append(requests, Request("generateDocument", FALSE, selectedDocumentType))
  /\ tasks' = tasks \cup {Task(started + 1, "draft", uploadedFile.analysis,
                               selectedDocumentType)}
  /\ started' = started + 1
  /\ UNCHANGED <<component, textVars, loadVars, lastDraft, apiKey, call, response, outcome, uploadedFile,
                 isAnalyzing, selectedDocumentType, generatedDocument, alert, timers>>

\* handleGenerateDocument up to the await, with generateDocument up to fetch: the
\* button is rendered once an analysis is attached and a type is selected, and
\* disabled while isGenerating
HandleGenerateDocument ==
  /\ component = "App"
  /\ uploadedFile.analysis /= "" /\ selectedDocumentType /= ""
  /\ ~isGenerating
  /\ started < MaxTasks
  \* if (!uploadedFile?.analysis || !selectedDocumentType) return
  /\ ~(uploadedFile.analysis = "" \/ selectedDocumentType = "")
  /\ isGenerating' = TRUE
  /\ requests' = Append(requests, Request("generateDocument", FALSE, selectedDocumentType))
  /\ tasks' = tasks \cup {Task(started + 1, "draft", uploadedFile.analysis,
                               selectedDocumentType)}
  /\ started' = started + 1
  /\ UNCHANGED <<component, textVars, loadVars, lastDraft, apiKey, call, response, outcome, uploadedFile,
                 isAnalyzing, selectedDocumentType, generatedDocument, alert, timers>>

\* handleGenerateDocument after the await
GenerateSettles ==
  /\ component = "App"
  /\ \E t \in tasks, resp \in Responses(AppDraftReplies) :
       /\ t.kind = "draft"
       /\ tasks' = tasks \ {t}
       /\ generatedDocument' = AppGenerateDocument(resp).value
       /\ lastDraft' = [documentType |-> t.documentType, analysis |-> t.text,
                        response |-> resp]
  /\ isGenerating' = FALSE
  /\ UNCHANGED <<component, textVars, loadVars, callVars, uploadedFile, isAnalyzing,
                 selectedDocumentType, alert, timers, started>>

NextApp ==
  \/ HandleFileUpload \/ UploadSettles \/ TimerFires
  \/ StartAnalysis \/ AnalysisSettles
  \/ SelectDocumentType
  \/ HandleGenerateDocument \/ GenerateSettles

----------------------------------------------------------------------------
(* Text quality and basic information *)


\* [一-龥]
CJK ==
  {DI, TIAO, NIAN, DU, ZI, HAO, YE, SU, PAN, JUE, YUAN1, GAO4, BEI, FA, YUAN4, AN, JIAN,
   SHI4, SHI2, LI, YOU, SHANG, TAI, TAI2, WAN, BEI3, DI4, FANG, GAO1, DENG, ZUI, XING,
   ZHENG, ZHI, HUI, CAI, CHAN, FEN, WANG, XIAO, MING, LEE, DA, HUA}
\* [a-zA-Z]
Letter == Word \ (Digit \cup {"_"})
\* [一-龥\w\s，。！？；：「」]
Recognized == CJK \cup Word \cup Space \cup {DOU, JU, EXCL, QUES, SEMI, FCOLON, LQ, RQ}

\* String.prototype.includes
IncludesText(s, sub) ==
  \E k \in 0..(Len(s) - Len(sub)) : \A j \in 1..Len(sub) : s[k + j] = sub[j]

\* the words of s: where a run of characters that are no whitespace starts
WordStarts(s) == {i \in 1..Len(s) : s[i] \notin Space /\ (i = 1 \/ s[i - 1] \in Space)}

\* text.trim().split(/\s+/).length: the empty string splits into one empty word
TrimSplitLength(s) == IF WordStarts(s) = {} THEN 1 ELSE Cardinality(WordStarts(s))
\* text.split(/\s+/).filter(word => word.length > 0).length
SplitFilterLength(s) == Cardinality(WordStarts(s))

\* the thresholds of assessTextQuality
FEW_WORDS == 100
MEDIUM_WORDS == 200
HIGH_WORDS == 500
FEW_KEYWORDS == 3
REPEATS == 10

\* legalKeywords
legalKeywords ==
  << <<PAN, JUE>>, <<YUAN1, GAO4>>, <<BEI, GAO4>>, <<FA, YUAN4>>, <<AN, JIAN>>,
     <<SHI4, SHI2>>, <<LI, YOU>> >>
\* legalKeywords.filter(keyword => text.includes(keyword))
foundKeywords(s) == {k \in 1..Len(legalKeywords) : IncludesText(s, legalKeywords[k])}

\* (text.match(/[^...]/g) || []).length / text.length > 0.3; 0 / 0 is NaN and
\* no comparison with NaN holds
ManyUnrecognized(s) ==
  10 * Cardinality({i \in 1..Len(s) : s[i] \notin Recognized}) > 3 * Len(s)

\* the issue lists: an issue is named, the lists keep the order of the pushes
IssueList(tooShort, fewKeywords, garbled, repeated) ==
  (IF tooShort THEN <<"tooLittleText">> ELSE <<>>)
  \o (IF fewKeywords THEN <<"fewLegalKeywords">> ELSE <<>>)
  \o (IF garbled THEN <<"unrecognizedCharacters">> ELSE <<>>)
  \o (IF repeated THEN <<"repeatedCharacters">> ELSE <<>>)

NoAssessment == [quality |-> "none", issues |-> <<>>, wordCount |-> 0]
Assessment(quality, issues, wordCount) ==
  [quality |-> quality, issues |-> issues, wordCount |-> wordCount]

\* PDFService.assessTextQuality, first variant
assessTextQuality(s) ==
  LET wordCount == TrimSplitLength(s)
      issues == IssueList(wordCount < FEW_WORDS,
                          Cardinality(foundKeywords(s)) < FEW_KEYWORDS,
                          ManyUnrecognized(s), FALSE)
  IN Assessment(IF Len(issues) = 0 /\ wordCount > HIGH_WORDS THEN "high"
                ELSE IF Len(issues) <= 1 /\ wordCount > MEDIUM_WORDS THEN "medium"
                ELSE "low",
                issues, wordCount)

\* singleChars / totalChars < 0.5
FewLetters(s) == 2 * Cardinality({i \in 1..Len(s) : s[i] \in CJK \cup Letter}) < Len(s)
\* /(.)\1{10,}/.test(text)
HasRepeats(s) ==
  \E i \in 1..(Len(s) - REPEATS) : s[i] /= NL /\ \A k \in 1..REPEATS : s[i + k] = s[i]

\* quality === 'high' ? 'medium' : 'low'
Demote(quality) == IF quality = "high" THEN "medium" ELSE "low"

\* PDFService.assessTextQuality, second variant
assessTextQuality2(s) ==
  LET wordCount == SplitFilterLength(s)
      q1 == IF wordCount < FEW_WORDS THEN "low" ELSE "high"
      q2 == IF FewLetters(s) THEN Demote(q1) ELSE q1
      q3 == IF HasRepeats(s) THEN Demote(q2) ELSE q2
  IN Assessment(q3, IssueList(wordCount < FEW_WORDS, FALSE, FewLetters(s), HasRepeats(s)),
                wordCount)

\* s has lit at i
StartsWith(s, i, lit) == \A k \in 1..Len(lit) : At(s, i + k - 1, lit[k])
\* String.prototype.match without the g flag takes the leftmost match: the least
\* of the positions where the expression matches, 0 if there is none
Leftmost1(starts) == IF starts = {} THEN 0 ELSE Min(starts)

\* a field of the result: absent from the object, or a string
Absent == [has |-> FALSE, str |-> <<>>]
Str(v) == [has |-> TRUE, str |-> v]
NoInfo == [caseNumber |-> Absent, court |-> Absent, plaintiff |-> Absent,
           defendant |-> Absent, returned |-> FALSE]
Info(caseNumber, court, plaintiff, defendant) ==
  [caseNumber |-> caseNumber, court |-> court, plaintiff |-> plaintiff,
   defendant |-> defendant, returned |-> TRUE]

\* /(\d+年度\w+字第\d+號)/ at i: the end of the match, 0 if none
CaseNumberMatchEnd(s, i) ==
  LET a == Span(s, i, Digit)
      d == Span(s, a + 2, Word)
      g == Span(s, d + 2, Digit)
  IN IF /\ s[i] \in Digit
        /\ At(s, a, NIAN) /\ At(s, a + 1, DU)
        /\ d > a + 2
        /\ At(s, d, ZI) /\ At(s, d + 1, DI)
        /\ g > d + 2
        /\ At(s, g, HAO)
     THEN g ELSE 0
\* text.match(/(\d+年度\w+字第\d+號)/)
CaseNumberMatch(s) ==
  LET i == Leftmost1({k \in 1..Len(s) : CaseNumberMatchEnd(s, k) > 0})
  IN IF i = 0 THEN Absent ELSE Str(Slice(s, i, CaseNumberMatchEnd(s, i)))

DistrictCourt == <<DI4, FANG, FA, YUAN4>>
HighCourt == <<GAO1, DENG, FA, YUAN4>>
SupremeCourt == <<ZUI, GAO1, FA, YUAN4>>
SupremeAdministrativeCourt == <<ZUI, GAO1, XING, ZHENG, FA, YUAN4>>
IntellectualPropertyCourt == <<ZHI, HUI, CAI, CHAN, FA, YUAN4>>
Branch == <<FEN, YUAN4>>

\* /臺灣(\w+)地方法院/ at i
DistrictCourtEnd(s, i) ==
  LET j == Span(s, i + 2, Word)
  IN IF StartsWith(s, i, <<TAI, WAN>>) /\ j > i + 2 /\ StartsWith(s, j, DistrictCourt)
     THEN j + 3 ELSE 0
\* /臺灣高等法院(\w+分院)?/ at i
HighCourtEnd(s, i) ==
  LET j == Span(s, i + 6, Word)
  IN IF ~StartsWith(s, i, <<TAI, WAN>> \o HighCourt) THEN 0
     ELSE IF j > i + 6 /\ StartsWith(s, j, Branch) THEN j + 1
     ELSE i + 5
\* a literal at i
LiteralEnd(s, i, lit) == IF StartsWith(s, i, lit) THEN i + Len(lit) - 1 ELSE 0

\* courtMatches[n] at i
CourtPatternEnd(s, i, n) ==
  IF n = 1 THEN DistrictCourtEnd(s, i)
  ELSE IF n = 2 THEN HighCourtEnd(s, i)
  ELSE IF n = 3 THEN LiteralEnd(s, i, SupremeCourt)
  ELSE IF n = 4 THEN LiteralEnd(s, i, SupremeAdministrativeCourt)
  ELSE LiteralEnd(s, i, IntellectualPropertyCourt)
\* how many patterns courtMatches holds
CourtPatterns == 5

\* for (const pattern of courtMatches): match[0] of the first pattern that matches
CourtMatch(s) ==
  LET found == {n \in 1..CourtPatterns : \E i \in 1..Len(s) : CourtPatternEnd(s, i, n) > 0}
      n == Min(found)
      i == Leftmost1({k \in 1..Len(s) : CourtPatternEnd(s, k, n) > 0})
  IN IF found = {} THEN Absent ELSE Str(Slice(s, i, CourtPatternEnd(s, i, n)))

\* label\s*告[：:] at i: where the captured group starts, 0 if the label is not there
PartyLabelEnd(s, i, label) ==
  LET j == Span(s, i + 1, Space)
  IN IF s[i] = label /\ At(s, j, GAO4) /\ j + 1 <= Len(s) /\ s[j + 1] \in {FCOLON, ":"}
     THEN j + 2 ELSE 0
\* (.+?)(?=stop) from c on: the end of the shortest run of one character or more,
\* none of them a line feed, that a character of stop follows; 0 if there is none
LazyUntil(s, c, stop) ==
  Leftmost1({e \in c..(Len(s) - 1) :
               /\ s[e + 1] \in stop
               /\ \A k \in c..e : s[k] /= NL})
\* label\s*告[：:](.+?)(?=stop) at i: the end of the captured group, 0 if no match
PartyEnd(s, i, label, stop) ==
  IF PartyLabelEnd(s, i, label) = 0 THEN 0
  ELSE LazyUntil(s, PartyLabelEnd(s, i, label), stop)
\* text.match(...)[1].trim()
PartyMatch(s, label, stop) ==
  LET i == Leftmost1({k \in 1..Len(s) : PartyEnd(s, k, label, stop) > 0})
  IN IF i = 0 THEN Absent
     ELSE Str(Trim(Slice(s, PartyLabelEnd(s, i, label), PartyEnd(s, i, label, stop))))

\* PDFService.extractBasicInfo, first variant
extractBasicInfo(s) ==
  Info(CaseNumberMatch(s), CourtMatch(s),
       PartyMatch(s, YUAN1, {BEI, SHANG}), PartyMatch(s, BEI, {NL, JU}))

\* '未找到案號', '未找到法院資訊', "未找到法院", "請從判決書中確認"
CaseNumberNotFound == <<"CaseNumberNotFound">>
CourtInfoNotFound == <<"CourtInfoNotFound">>
CourtNotFound == <<"CourtNotFound">>
ConfirmFromJudgment == <<"ConfirmFromJudgment">>

\* /案號[：:\s]*([^\n\s]+)/ at i: where the captured group starts, 0 if no match
CaseLabelEnd(s, i) ==
  IF ~StartsWith(s, i, <<AN, HAO>>) THEN 0
  ELSE Max({p \in (i + 2)..Span(s, i + 2, {FCOLON, ":"} \cup Space) :
              p <= Len(s) /\ s[p] \notin Space} \cup {0})
\* caseNumberMatch ? caseNumberMatch[1].trim() : '未找到案號'
CaseNumberMatch2(s) ==
  LET i == Leftmost1({k \in 1..Len(s) : CaseLabelEnd(s, k) > 0})
      p == CaseLabelEnd(s, i)
  IN IF i = 0 THEN Str(CaseNumberNotFound)
     ELSE Str(Slice(s, p, Min({k \in p..(Len(s) + 1) : k = Len(s) + 1 \/ s[k] \in Space}) - 1))

\* the least and the greatest count of .{2,8}
MIN_COURT_NAME == 2
MAX_COURT_NAME == 8
\* .{n} from a on, and then (地方法院|高等法院|最高法院)
CourtNameThenSuffix(s, a, n) ==
  /\ \A k \in a..(a + n - 1) : k <= Len(s) /\ s[k] /= NL
  /\ \E lit \in {DistrictCourt, HighCourt, SupremeCourt} : StartsWith(s, a + n, lit)
\* /(臺灣|台灣)?(.{2,8})(地方法院|高等法院|最高法院)/ at i
CourtEnd2(s, i) ==
  LET prefixed == {n \in MIN_COURT_NAME..MAX_COURT_NAME :
                     /\ StartsWith(s, i, <<TAI, WAN>>) \/ StartsWith(s, i, <<TAI2, WAN>>)
                     /\ CourtNameThenSuffix(s, i + 2, n)}
      plain == {n \in MIN_COURT_NAME..MAX_COURT_NAME : CourtNameThenSuffix(s, i, n)}
  IN IF prefixed /= {} THEN i + 2 + Max(prefixed) + 3
     ELSE IF plain /= {} THEN i + Max(plain) + 3
     ELSE 0
\* courtMatch ? courtMatch[0].trim() : '未找到法院資訊'
CourtMatch2(s) ==
  LET i == Leftmost1({k \in 1..Len(s) : CourtEnd2(s, k) > 0})
  IN IF i = 0 THEN Str(CourtInfoNotFound) ELSE Str(Trim(Slice(s, i, CourtEnd2(s, i))))

\* PDFService.extractBasicInfo, second variant: the object has two members
extractBasicInfo2(s) == Info(CaseNumberMatch2(s), CourtMatch2(s), Absent, Absent)

\* /(臺灣\w+地方法院|臺灣高等法院|最高法院)/ at i
CourtEndApp(s, i) ==
  IF DistrictCourtEnd(s, i) > 0 THEN DistrictCourtEnd(s, i)
  ELSE IF StartsWith(s, i, <<TAI, WAN>> \o HighCourt) THEN i + 5
  ELSE LiteralEnd(s, i, SupremeCourt)
\* courtMatch?.[0] || "未找到法院"
CourtMatchApp(s) ==
  LET i == Leftmost1({k \in 1..Len(s) : CourtEndApp(s, k) > 0})
  IN IF i = 0 THEN Str(CourtNotFound) ELSE Str(Slice(s, i, CourtEndApp(s, i)))

\* App.extractBasicInfo: caseInfo of the object it returns
AppExtractBasicInfo(s) ==
  Info(IF CaseNumberMatch(s).has THEN CaseNumberMatch(s) ELSE Str(CaseNumberNotFound),
       CourtMatchApp(s), Str(ConfirmFromJudgment), Str(ConfirmFromJudgment))

\* ---- the texts the two functions are run on

\* n words of one letter with one space between them
Words(n) == [k \in 1..(2 * n - 1) |-> IF k % 2 = 1 THEN "a" ELSE SP]
\* the first k legal keywords, in one run
KeywordRun(k) == Flatten(legalKeywords, 1, k)
\* n characters that are no letters, digits, whitespace or listed punctuation
Garble(n) == [k \in 1..n |-> IF k % 2 = 1 THEN "#" ELSE "%"]
\* one letter, and the same letter REPEATS times more
Repeated == [k \in 1..(REPEATS + 1) |-> "a"]

\* word counts around the thresholds, keyword counts around FEW_KEYWORDS
WordCounts == {0, 1, 50, FEW_WORDS - 1, FEW_WORDS, 150, MEDIUM_WORDS, MEDIUM_WORDS + 1,
               HIGH_WORDS, HIGH_WORDS + 1}
KeywordCounts == {0, FEW_KEYWORDS - 1, FEW_KEYWORDS, Len(legalKeywords)}

\* a text of n words (one more when n = 0 and something is added) with k keywords
QualityText(n, k, garbled, repeated) ==
  LET base == KeywordRun(k) \o Words(n) \o (IF repeated THEN Repeated ELSE <<>>)
  IN base \o (IF garbled THEN Garble(Len(base) + 1) ELSE <<>>)
QualityTexts ==
  {QualityText(n, k, garbled, repeated) :
     n \in WordCounts, k \in KeywordCounts, garbled \in BOOLEAN, repeated \in BOOLEAN}

\* "112年度sc字第789號"
CaseNumberLatin == <<"1", "1", "2", NIAN, DU, "s", "c", ZI, DI, "7", "8", "9", HAO>>
CaseParts ==
  {<<>>, CaseNumber789, CaseNumberLatin, <<AN, HAO, FCOLON, SP>> \o CaseNumber789,
   <<AN, HAO, ":">>}
CourtParts ==
  {<<>>, <<TAI, WAN, TAI, BEI3>> \o DistrictCourt, <<TAI, WAN, "x">> \o DistrictCourt,
   <<TAI2, WAN, TAI2, BEI3>> \o DistrictCourt,
   <<TAI, WAN>> \o HighCourt, <<TAI, WAN>> \o HighCourt \o <<"x">> \o Branch,
   SupremeCourt, SupremeAdministrativeCourt, IntellectualPropertyCourt}
\* the parties and what may follow them
PartyParts ==
  {<<>>, Parties, Parties \o <<NL>>, Parties \o <<SP, "x", JU>>,
   <<YUAN1, SP, GAO4, ":", WANG, XIAO, MING, SHANG>>,
   <<BEI, GAO4, ":", LEE, DA, HUA, JU>>}
InfoTexts ==
  {Join(<<case, court, party>>, <<SP>>) :
     case \in CaseParts, court \in CourtParts, party \in PartyParts}

Texts == QualityTexts \cup InfoTexts

\* no call of assessTextQuality or extractBasicInfo is made
NoText ==
  /\ textArg = <<>>
  /\ assessment = NoAssessment
  /\ info = NoInfo

InitText ==
  /\ textArg \in Texts
  /\ assessment = NoAssessment
  /\ info = NoInfo

\* PDFService.assessTextQuality(text), of either variant
AssessTextQuality ==
  /\ component \in {"PDFService", "PDFService2"}
  /\ assessment = NoAssessment
  /\ assessment' = IF component = "PDFService" THEN assessTextQuality(textArg)
                   ELSE assessTextQuality2(textArg)
  /\ UNCHANGED <<component, loadVars, callVars, appVars, textArg, info>>

\* extractBasicInfo(t), of PDFService, of its second variant or of App
ExtractBasicInfoOf(t) ==
  /\ info = NoInfo
  /\ info' = IF component = "PDFService" THEN extractBasicInfo(t)
             ELSE IF component = "PDFService2" THEN extractBasicInfo2(t)
             ELSE AppExtractBasicInfo(t)
  /\ UNCHANGED <<component, loadVars, callVars, appVars, textArg, assessment>>

\* extractBasicInfo on a text given by the caller
ExtractBasicInfo ==
  /\ pc = "none"
  /\ ExtractBasicInfoOf(textArg)

\* extractBasicInfo on the text extractTextFromPDF returned
ExtractBasicInfoOfResult ==
  /\ pc = "done"
  /\ result.status = "ok"
  /\ ExtractBasicInfoOf(result.text)

NextText == AssessTextQuality \/ ExtractBasicInfo

----------------------------------------------------------------------------
(* Specifications *)

\* one call of assessTextQuality and one of extractBasicInfo on a given text
InitSpecText == component \in Loaders /\ NoLoad /\ NoCall /\ NoApp /\ InitText
SpecText == InitSpecText /\ [][NextText]_vars

\* one call of extractTextFromPDF, of either PDFService
InitSpecLoad == component \in Loaders /\ InitLoad /\ NoCall /\ NoApp /\ NoText
SpecLoad == InitSpecLoad /\ [][NextLoad \/ ExtractBasicInfoOfResult]_vars

\* one call of an LLM function, of GeminiService or of App
InitSpecCall == component \in Functions /\ NoLoad /\ InitCall /\ NoApp /\ NoText
SpecCall == InitSpecCall /\ [][NextCall]_vars

\* the ways a draft request is made: GeminiService.generateDocument, and the App
\* component from its first render on
InitSpecDraft ==
  \/ component = "GeminiService" /\ NoLoad /\ InitCall /\ NoApp /\ NoText
  \/ component = "App" /\ NoLoad /\ NoCall /\ InitApp /\ NoText

\* the App component from its first render on
InitSpecApp == component = "App" /\ NoLoad /\ NoCall /\ InitApp /\ NoText
SpecApp == InitSpecApp /\ [][NextApp]_vars
\* the App component when every promise its handlers await settles and every
\* timer it sets fires: the event loop runs each continuation that is ready
Settling ==
  /\ WF_vars(UploadSettles)
  /\ WF_vars(TimerFires)
  /\ WF_vars(AnalysisSettles)
  /\ WF_vars(GenerateSettles)
SpecAppSettling == InitSpecApp /\ [][NextApp]_vars /\ Settling
SpecDraft == InitSpecDraft /\ [][GeminiGenerateDocument \/ GeminiReturn \/ NextApp]_vars

----------------------------------------------------------------------------
(* Claims about the loader and the normalizer *)

ValidFile(f) == f.type = "application/pdf" /\ 0 < f.size /\ f.size <= MAX_FILE_SIZE

\* sub occurs in s as a run of consecutive characters
IsInfix(sub, s) ==
  \E k \in 0..(Len(s) - Len(sub)) : \A j \in 1..Len(sub) : s[k + j] = sub[j]

\* the pages decoded so far that yield text
GoodPages == {k \in 1..Len(pages) : ~pages[k].throws /\ Trim(PageText2(pages[k].items)) /= <<>>}
FailedPages == {k \in 1..Len(pages) : pages[k].throws}

\* C1: decoding (reading the bytes, opening the PDF) starts only for a file whose
\* type is application/pdf and whose size is in 1..MAX_FILE_SIZE; any other file
\* ends the call with an invalid-input error.
C1_DecodeOnlyValidFiles ==
  /\ decoded => ValidFile(file)
  /\ (pc = "done" /\ ~ValidFile(file)) =>
       (result.status = "error" /\ result.error \in InvalidInput)

\* C2: normalizing the normalizer's own output gives the same string.
C2_NormalizeIdempotent ==
  /\ (component = "PDFService" /\ pc = "done" /\ result.status = "ok")
       => cleanExtractedText(result.text) = result.text
  /\ (component = "PDFService2" /\ pc = "done" /\ result.status = "ok")
       => cleanExtractedText2(result.text) = result.text

\* C3: a case number written with whitespace between its parts, its word being a
\* CJK character, comes out of normalization with the whitespace removed.
C3_CaseNumberCompacted ==
  (/\ component = "PDFService"
   /\ pc = "done"
   /\ result.status = "ok"
   /\ \E k \in 1..Len(pages) : \E n \in 1..Len(pages[k].items) :
        pages[k].items[n] = CaseNumberSample)
  => IsInfix(CaseNumberCompact, result.text)

\* C10: a page that fails to decode does not fail the load when another page
\* yields text, and the no-extractable-text error is given only when every page
\* is empty or failed.
C10_PartialDecodeTolerated ==
  /\ (FailedPages /= {} /\ GoodPages /= {} /\ Len(pages) = numPages /\ pc = "done")
        => result.status = "ok"
  /\ (pc = "done" /\ result.error = "noExtractableText") => GoodPages = {}

----------------------------------------------------------------------------
(* Claims about analysis and drafting *)

\* a call of analyzeJudgment that has returned or thrown
AnalysisDone == call.fn = "analyzeJudgment" /\ call.state = "done"
\* a call of generateDocument that has returned or thrown
DraftDone == call.fn = "generateDocument" /\ call.state = "done"
\* the call read the text of an LLM reply
Replied == response.net = "ok" /\ response.content \in {"noText", "text"}

Present(v, key) == v.k = "object" /\ key \in DOMAIN v.m
NonEmpty(v, key) == Present(v, key) /\ v.m[key].k \notin {"emptystring", "emptyarray", "null"}

\* a VerdictAnalysis as the specification describes it
WellFormed(v) ==
  /\ Present(v, "summary") /\ IsString(v.m["summary"])
  /\ Present(v, "recommendedStrategy") /\ IsString(v.m["recommendedStrategy"])
  /\ \A list \in ListSlots : Present(v, list) /\ v.m[list].k = "array"
  /\ Present(v, "caseInfo")
  /\ NonEmpty(v.m["caseInfo"], "caseNumber")
  /\ NonEmpty(v.m["caseInfo"], "court")
  /\ Present(v.m["caseInfo"], "parties")
  /\ NonEmpty(v.m["caseInfo"].m["parties"], "plaintiff")
  /\ NonEmpty(v.m["caseInfo"].m["parties"], "defendant")

\* C4: an analysis that is returned has string summary and recommendedStrategy,
\* its four lists present and non-empty, and a caseInfo whose caseNumber, court,
\* parties.plaintiff and parties.defendant are present and non-empty.
C4_SuccessIsWellFormed ==
  (AnalysisDone /\ outcome.status = "ok") => WellFormed(outcome.value)

SchemaOrder ==
  <<"summary", "caseInfo", "favorablePoints", "unfavorablePoints", "legalGrounds",
    "appealableIssues", "recommendedStrategy">>

\* a required field that is missing, of the wrong type, or an empty list
Offends(v, field) ==
  \/ field \notin DOMAIN v.m
  \/ field \in ListSlots /\ v.m[field].k /= "array"
  \/ field \in {"summary", "recommendedStrategy"} /\ ~IsString(v.m[field])
  \/ field = "caseInfo" /\ ~IsObjectType(v.m[field])
Offending(v) == {n \in 1..Len(SchemaOrder) : Offends(v, SchemaOrder[n])}

SchemaViolations == {"missingField", "notNonEmptyArray", "notString", "notObject"}

\* C5: when the reply holds parseable JSON with a required field missing, of
\* the wrong shape or an empty list, the analysis fails with a schema violation
\* that names the first such field in schema order.
C5_SchemaViolationNamesField ==
  (/\ AnalysisDone
   /\ Replied
   /\ HasJsonMatch(ReplyText(response))
   /\ JSONparse(JsonMatch(ReplyText(response))).ok
   /\ Offending(JSONparse(JsonMatch(ReplyText(response))).val) /= {})
  => /\ outcome.status = "error"
     /\ outcome.error.kind \in SchemaViolations
     /\ outcome.error.field =
          SchemaOrder[Min(Offending(JSONparse(JsonMatch(ReplyText(response))).val))]

\* no opening brace of the text has a closing brace after it
NoBraceSpan(text) ==
  ~ \E i, j \in 1..Len(text) : i < j /\ text[i] = LB /\ text[j] = RB

MalformedJson == {"malformedJson", "SyntaxError"}

\* C6: a reply without a span from an opening brace to a later closing brace
\* fails the analysis with the no-JSON-found error, and the malformed-JSON error
\* is given only when there is such a span and JSON.parse rejects it.
C6_NoSpanIsNoJsonFound ==
  /\ (AnalysisDone /\ Replied /\ NoBraceSpan(ReplyText(response)))
       => (outcome.status = "error" /\ outcome.error.kind = "noJsonFound")
  /\ (AnalysisDone /\ outcome.status = "error" /\ outcome.error.kind \in MalformedJson)
       => /\ Replied
          /\ ~NoBraceSpan(ReplyText(response))
          /\ ~JSONparse(JsonMatch(ReplyText(response))).ok

\* a reply with braces, but none of them closing after an opening one, has
\* failed the analysis with the no-JSON-found error
C6_Witness ==
  /\ AnalysisDone
  /\ Replied
  /\ NoBraceSpan(ReplyText(response))
  /\ \E i, j \in 1..Len(ReplyText(response)) :
       ReplyText(response)[i] = RB /\ ReplyText(response)[j] = LB
  /\ outcome.status = "error"
  /\ outcome.error.kind = "noJsonFound"

\* C7: an empty or whitespace-only reply to a draft request fails the draft; no
\* draft body is returned for it.
C7_EmptyReplyFailsDraft ==
  (DraftDone /\ Replied /\ Trim(ReplyText(response)) = <<>>) => outcome.status = "error"

\* C9: without the API key no request is sent, and every call ends with the
\* configuration error (the connection test, which reports failures as false,
\* with false).
C9_NoRequestWithoutKey ==
  /\ ~apiKey => requests = <<>>
  /\ (~apiKey /\ call.state = "done")
       => \/ outcome.status = "error" /\ outcome.error.kind = "noApiKey"
          \/ call.fn = "testConnection" /\ outcome.value = FALSE

----------------------------------------------------------------------------
(* Claims about the filing type *)

\* the four filing types of the specification
FilingTypes == {"CivilAppeal", "CriminalAppeal", "Defense", "Complaint"}

DraftRequests == {k \in 1..Len(requests) : requests[k].fn = "generateDocument"}

----------------------------------------------------------------------------
(* Claims about the quality assessor and the fallback extractor *)

\* C11: the quality is high iff there is no issue and more than 500 words,
\* medium iff it is not high, there is at most one issue and more than 200
\* words, and low otherwise.
C11_QualityIsDecisionTable ==
  assessment /= NoAssessment =>
    assessment.quality =
      IF Len(assessment.issues) = 0 /\ assessment.wordCount > 500 THEN "high"
      ELSE IF Len(assessment.issues) <= 1 /\ assessment.wordCount > 200 THEN "medium"
      ELSE "low"

\* the issues of an assessment
IssuesOf(a) == {a.issues[k] : k \in 1..Len(a.issues)}

\* C12: a text of fewer than 100 words with fewer than 3 of the legal keywords
\* is assessed low, with both the too-little-text issue and the
\* insufficient-legal-keywords issue.
C12_ShortTextWithoutKeywordsIsLow ==
  (/\ assessment /= NoAssessment
   /\ Cardinality(WordStarts(textArg)) < 100
   /\ Cardinality(foundKeywords(textArg)) < 3)
  => /\ assessment.quality = "low"
     /\ {"tooLittleText", "fewLegalKeywords"} \subseteq IssuesOf(assessment)

\* C13: the CaseInfo extractBasicInfo returns has its four fields present as
\* strings, whatever the text.
C13_BasicInfoFullyPopulated ==
  info.returned =>
    /\ info.caseNumber.has
    /\ info.court.has
    /\ info.plaintiff.has
    /\ info.defendant.has


\* the document loaded has one page, decoded well, whose text begins with the
\* judgment page
OneJudgmentPage ==
  /\ numPages = 1
  /\ Len(pages) = 1
  /\ ~pages[1].throws
  /\ Len(pages[1].items) >= 1
  /\ pages[1].items[1] = JudgmentPage

\* C14: from the one-page judgment, load, normalize and the fallback
\* extractBasicInfo give the plaintiff exactly "王小明" and the defendant
\* exactly "李大華".
C14_PartiesRecovered ==
  (component = "PDFService" /\ OneJudgmentPage /\ info.returned)
  => /\ info.plaintiff = Str(<<WANG, XIAO, MING>>)
     /\ info.defendant = Str(<<LEE, DA, HUA>>)


----------------------------------------------------------------------------
(* Claims about the component *)

\* the calls in flight, of a kind
InFlight(kind) == {t \in tasks : t.kind = kind}

\* C15: a draft call is issued only when the component holds an analysis, which
\* only a successful analyze call attaches, and a filing type is selected.
C15_DraftOnlyAfterAnalysis ==
  [][InFlight("draft")' /= InFlight("draft") /\ InFlight("draft") \subseteq InFlight("draft")'
       => /\ uploadedFile.present
          /\ uploadedFile.analysis \in Judgments
          /\ selectedDocumentType \in SelectorTypes
          /\ \A t \in InFlight("draft")' \ InFlight("draft") :
               t.text = uploadedFile.analysis /\ t.documentType = selectedDocumentType]_vars

\* a draft call is in flight, issued for the analysis held and the type selected
C15_Witness ==
  /\ component = "App"
  /\ isGenerating
  /\ \E t \in InFlight("draft") :
       t.text = uploadedFile.analysis /\ t.documentType = selectedDocumentType

\* C16: there are never two analyze calls in flight, nor two draft calls.
C16_NoReentrantCalls ==
  /\ Cardinality(InFlight("analyze")) <= 1
  /\ Cardinality(InFlight("draft")) <= 1

\* the draft call failed: fetch rejected, the status is not 2xx, or the response
\* has no text content block
DraftCallFailed(resp) == resp.net \in {"rejected", "notOk"} \/ resp.content /= "text"

\* C17: a failed draft call leaves the generated document as it was: the call
\* that last set it did not fail, and the text of the failure path is not in it.
C17_FailedDraftStoresNothing ==
  /\ lastDraft /= NoDraft => ~DraftCallFailed(lastDraft.response)
  /\ generatedDocument /= GenerationFailedText

\* C18: the analysis the component holds was made of the text of the document
\* it holds.
C18_AnalysisIsOfHeldDocument ==
  (uploadedFile.present /\ uploadedFile.analysis /= "")
    => uploadedFile.analysis = uploadedFile.text

\* C19: while a generated document is displayed, the label over it is the
\* filing type that was passed to the draft call that produced it.
C19_LabelIsDraftedType ==
  (uploadedFile.analysis /= "" /\ generatedDocument /= <<>> /\ lastDraft /= NoDraft)
    => selectedDocumentType = lastDraft.documentType


----------------------------------------------------------------------------
(* Claims about the JSON span *)

\* the text is an object that parses and has the schema, followed by further
\* text in which there is a closing brace
ValidObjectThenBrace(text) ==
  \E k \in 1..Len(text) :
    /\ JSONparse(SubSeq(text, 1, k)).ok
    /\ WellFormed(JSONparse(SubSeq(text, 1, k)).val)
    /\ \E j \in (k + 1)..Len(text) : text[j] = RB

\* C20: a reply that is a schema-valid object followed by text with another
\* closing brace fails the analysis with the malformed-JSON error, and no
\* analysis is returned.
C20_TrailingBraceIsMalformed ==
  (AnalysisDone /\ Replied /\ ValidObjectThenBrace(ReplyText(response)))
    => /\ outcome.status = "error"
       /\ outcome.error.kind \in MalformedJson

\* the reply was the asked object, then text, then a closing brace, and the
\* analysis failed on the JSON
C20_Witness ==
  /\ AnalysisDone
  /\ Replied
  /\ ReplyText(response) = Complete \o <<XT, RB>>
  /\ outcome.status = "error"
  /\ outcome.error.kind \in MalformedJson


----------------------------------------------------------------------------
(* Claims about the flags of the component *)

\* C21: when every extraction and every LLM call settles and every timer
\* fires, isAnalyzing always returns to false and isGenerating always returns
\* to false: neither the analyze button nor the generate button stays disabled
\* forever.
C21_FlagsReturnToFalse ==
  /\ isAnalyzing ~> ~isAnalyzing
  /\ isGenerating ~> ~isGenerating

\* every call the component may start has been started and has settled, a
\* failed analyze call and a draft call among them, and both flags are false
C21_Witness ==
  /\ component = "App"
  /\ started = MaxTasks
  /\ tasks = {}
  /\ timers = 0
  /\ lastDraft /= NoDraft
  /\ ~isAnalyzing
  /\ ~isGenerating

=============================================================================
